---- MODULE Spec2Model ----
(***************************************************************************)
(* A model of the liandianqi auto clicker: the matching functions of       *)
(* vision_utils.py, the pointer actuators of mac_mouse.py and              *)
(* platform_adapter.py, and the start-up and multi-step loop of            *)
(* auto_clicker_mac.py.                                                    *)
(*                                                                         *)
(* Conventions.  A Python str is a sequence of one-character strings.      *)
(* A similarity score and a threshold are integers in hundredths           *)
(* (0.86 is 86).  A recognition confidence is an integer in tenths         *)
(* (59.5 is 595), so that int() has something to truncate.  A pointer      *)
(* coordinate is an integer in half units (7.5 is 15), so that the         *)
(* division by the display scale is exact.                                 *)
(***************************************************************************)
EXTENDS Integers, Sequences, FiniteSets, TLC

VARIABLES
    \* ---- the function under test (SpecOcr, SpecTpl) ----
    fpc,          \* "call" before the call, "done" after it
    fin,          \* the arguments of the call
    fout,         \* the value it returned
    \* ---- the pointer actuator (SpecClick, Spec) ----
    apc,          \* position inside random_click_in_rect: idle/entry/move/click/ret
    backend,      \* "mac" | "pyautogui" | "none": the adapter main obtained
    display_scale,\* mac_mouse._display_scale (1 or 2)
    arg,          \* the arguments of the call in flight: x, y, width, height, padding
    target,       \* (rx, ry) chosen in pixels and (target_x, target_y) in half units
    steps_n,      \* the number of pointer moves drawn for this call
    moved,        \* pointer moves emitted so far in this call
    pointer,      \* what the call did to the pointer, in order: "move"s and "click"s
    start,        \* (start_x, start_y): where the call found the pointer (half units)
    cursor,       \* where the call's last move or click put the pointer
    clickAt,      \* where the call's click was performed (half units), <<>> if none
    ret,          \* the call's return value (half units), <<>> before it returns
    \* ---- main and the multi-step loop (Spec) ----
    pc,           \* position in main / _run_sequence / _wait_for_step
    args,         \* the command line: platform, steps
    env,          \* the machine: sys.platform and the scale of its display
    steps,        \* the prepared step list
    step_index,   \* _run_sequence's step_index
    current_step, \* _run_sequence's step, the one _wait_for_step is called with
    frame,        \* the frame captured in this polling iteration
    matches,      \* the template matches of this iteration's evaluation
    boxes,        \* the text boxes of this iteration's evaluation
    trace,        \* what this polling iteration did, in order
    polled,       \* the step indexes _run_sequence started, in order (bounded)
    captures,     \* screen captures so far
    hits,         \* polling iterations so far whose match list was not empty
    clicks,       \* press-release clicks so far
    printed,      \* the last diagnostic/notice main printed ("" if none)
    outcome       \* "running" | "returned" | "raised": how main ended

fvars == <<fpc, fin, fout>>
avars == <<apc, backend, display_scale, arg, target, steps_n, moved, pointer, start, cursor,
           clickAt, ret>>
mrest == <<pc, args, env, steps, step_index, current_step, frame, matches, boxes, trace, polled,
           captures, hits, printed, outcome>>
mvars == <<mrest, clicks>>
vars == <<fvars, avars, mvars>>

------------------------------------------------------------------------------
(* Integers and strings as Python computes them *)

Abs(n) == IF n < 0 THEN -n ELSE n

Max(a, b) == IF a >= b THEN a ELSE b

\* int(c) of a confidence c given in tenths: truncation toward zero.
PyInt(c) == IF c >= 0 THEN c \div 10 ELSE -((-c) \div 10)

\* str.lower() on one character of the alphabet used here.
LowerChar(c) ==
    CASE c = "O" -> "o"
      [] c = "K" -> "k"
      [] c = "G" -> "g"
      [] OTHER -> c

\* str.lower()
Lower(s) == [i \in 1..Len(s) |-> LowerChar(s[i])]

\* `sub in s` for two Python strings: sub occurs in s as a contiguous run.
PyIn(sub, s) ==
    \E i \in 0..(Len(s) - Len(sub)) :
        \A j \in 1..Len(sub) : s[i + j] = sub[j]

------------------------------------------------------------------------------
(* vision_utils.find_text_boxes *)

\* Lines 67-74: the keyword loop appends the detection at most once (break).
KeywordHit(keyword_list, text) ==
    \E k \in 1..Len(keyword_list) : PyIn(Lower(keyword_list[k]), Lower(text))

\* Lines 62-65: the detections the loop skips before it looks at keywords.
Skipped(d, conf_min) == d.text = <<>> \/ PyInt(d.conf) < conf_min

TextBox(d) == <<d.left, d.top, d.width, d.height, d.text>>

RECURSIVE TextLoop(_, _, _, _)
TextLoop(ocr_data, keyword_list, conf_min, index) ==
    IF index > Len(ocr_data) THEN <<>>
    ELSE LET d == ocr_data[index]
             rest == TextLoop(ocr_data, keyword_list, conf_min, index + 1)
         IN  IF Skipped(d, conf_min) THEN rest
             ELSE IF KeywordHit(keyword_list, d.text) THEN <<TextBox(d)>> \o rest
             ELSE rest

\* A mutant: the confidence check of line 64 is missing.
find_text_boxes_nofloor(ocr_data, keywords, conf_min) ==
    TextLoop(ocr_data, keywords, 0 - 1000, 1)

\* ocr_data is what pytesseract.image_to_data returned for the image, one
\* record per detection, in the engine's order.
find_text_boxes(ocr_data, keywords, conf_min) ==
    TextLoop(ocr_data, keywords, conf_min, 1)

------------------------------------------------------------------------------
(* vision_utils.find_template_matches *)

\* The similarity surface cv2.matchTemplate returns is a sequence of rows of
\* scores: result[y + 1][x + 1] is the score at position (x, y).
Rows(result) == Len(result)

Cols(result) == IF Len(result) = 0 THEN 0 ELSE Len(result[1])

\* Line 99 and 105: np.where(result >= threshold) lists the positions row by
\* row (y ascending, then x ascending); zip(*locations[::-1]) yields them as
\* (x, y) in that order.
RECURSIVE LocationsAbove(_, _, _)
\* A mutant: np.where(result > threshold), a score equal to the threshold is
\* left out.
LocationsAbove(result, threshold, flat) ==
    IF flat >= Rows(result) * Cols(result) THEN <<>>
    ELSE LET y_coord == flat \div Cols(result)
             x_coord == flat % Cols(result)
             rest == LocationsAbove(result, threshold, flat + 1)
         IN  IF result[y_coord + 1][x_coord + 1] > threshold
             THEN <<<<x_coord, y_coord>>>> \o rest
             ELSE rest

RECURSIVE Locations(_, _, _)
Locations(result, threshold, flat) ==
    IF flat >= Rows(result) * Cols(result) THEN <<>>
    ELSE LET y_coord == flat \div Cols(result)
             x_coord == flat % Cols(result)
             rest == Locations(result, threshold, flat + 1)
         IN  IF result[y_coord + 1][x_coord + 1] >= threshold
             THEN <<<<x_coord, y_coord>>>> \o rest
             ELSE rest

\* The duplicate test of line 109 made against the most recently accepted
\* point only.
OccupiedLastOnly(occupied, x_coord, y_coord, width, height) ==
    /\ occupied # <<>>
    /\ Abs(x_coord - occupied[Len(occupied)][1]) < width \div 2
    /\ Abs(y_coord - occupied[Len(occupied)][2]) < height \div 2

\* Line 109: the point is a duplicate of an accepted one.
Occupied(occupied, x_coord, y_coord, width, height) ==
    \E k \in 1..Len(occupied) :
        /\ Abs(x_coord - occupied[k][1]) < width \div 2
        /\ Abs(y_coord - occupied[k][2]) < height \div 2

RECURSIVE TemplateLoopForgetful(_, _, _, _, _, _, _)
\* A mutant: the accepted point is not recorded (line 113 is missing).
TemplateLoopForgetful(points, i, result, width, height, found, occupied) ==
    IF i > Len(points) THEN found
    ELSE LET x_coord == points[i][1]
             y_coord == points[i][2]
             score == result[y_coord + 1][x_coord + 1]
         IN  IF Occupied(occupied, x_coord, y_coord, width, height)
             THEN TemplateLoopForgetful(points, i + 1, result, width, height, found,
                                        occupied)
             ELSE TemplateLoopForgetful(points, i + 1, result, width, height,
                               Append(found, <<x_coord, y_coord, width, height, score>>),
                               occupied)

\* Lines 105-113.
RECURSIVE TemplateLoop(_, _, _, _, _, _, _)
TemplateLoop(points, i, result, width, height, found, occupied) ==
    IF i > Len(points) THEN found
    ELSE LET x_coord == points[i][1]
             y_coord == points[i][2]
             score == result[y_coord + 1][x_coord + 1]
         IN  IF Occupied(occupied, x_coord, y_coord, width, height)
             THEN TemplateLoop(points, i + 1, result, width, height, found, occupied)
             ELSE TemplateLoop(points, i + 1, result, width, height,
                               Append(found, <<x_coord, y_coord, width, height, score>>),
                               Append(occupied, <<x_coord, y_coord>>))

\* template is the reference image's shape, [width, height]; result is the
\* similarity surface of the image and that reference.
find_template_matches(result, template, threshold) ==
    IF template.width * template.height = 0 THEN <<>>
    ELSE TemplateLoop(Locations(result, threshold, 0), 1, result,
                      template.width, template.height, <<>>, <<>>)

------------------------------------------------------------------------------
(* Bounds of the model *)

\* Screen captures after which the model stops following a run.
MaxCaptures == 2

\* Longest step list given on the command line.
MaxSteps == 2

\* Largest width and height of a rectangle handed to the actuator directly.
MaxRect == 3

\* Largest padding handed to the actuator directly.
MaxPad == 2

------------------------------------------------------------------------------
(* mac_mouse.random_click_in_rect and _PyAutoGUIAdapter.random_click_in_rect *)

\* mac_mouse.py line 164: steps_range, never overridden by the adapter.
steps_range == <<6, 15>>

\* platform_adapter.py line 57: move_steps.
move_steps == <<4, 8>>

\* The padding every caller in auto_clicker_mac.py leaves at its default.
DefaultPadding == 2

\* mac_mouse.py lines 52 and 98-100: the values _display_scale takes.
DisplayScales == {1, 2}

\* float(n) of a pixel coordinate, in half units.
Float(n) == 2 * n

\* rx / _display_scale, in half units (the scale is 1 or 2).
Scaled(rx, scale) == (2 * rx) \div scale

\* inner_width = max(width - padding * 2, 1)
Inner(width, padding) == Max(width - padding * 2, 1)

\* The values random.randint(x + padding, x + padding + inner - 1) can return.
RandomIn(x, padding, inner) == (x + padding)..(x + padding + inner - 1)

ZeroArea(a) == a.width <= 0 \/ a.height <= 0

\* get_mouse_position() / pyautogui.position(): whole pixels, wherever the
\* pointer was left.
Starts == {<<0, 0>>, <<6, 2>>}

NoStart == <<0, 0>>

\* A pointer position is [x, y, den, jitter]: the point (x / den, y / den), in
\* half units, give or take jitter on either axis.
NoCursor == [x |-> 0, y |-> 0, den |-> 1, jitter |-> 0]

\* A mutant: ratio = i / steps.
MoveAtLate(from, to, i, n) ==
    [x |-> n * from[1] + (to.x - from[1]) * i,
     y |-> n * from[2] + (to.y - from[2]) * i,
     den |-> n,
     jitter |-> Float(1)]

\* The move of the loop's turn i (from 0) out of n: ratio = (i + 1) / steps,
\* nx = start_x + (target_x - start_x) * ratio + random.uniform(-1, 1), and ny
\* alike.
MoveAt(from, to, i, n) ==
    [x |-> n * from[1] + (to.x - from[1]) * (i + 1),
     y |-> n * from[2] + (to.y - from[2]) * (i + 1),
     den |-> n,
     jitter |-> Float(1)]

\* A mutant: the origin is returned in the display's units, as the target
\* of a rectangle with area is.
MacEntryZeroScaled ==
    /\ apc = "entry" /\ backend = "mac" /\ ZeroArea(arg)
    /\ ret' = <<Scaled(arg.x, display_scale), Scaled(arg.y, display_scale)>>
    /\ apc' = "ret"
    /\ UNCHANGED <<backend, display_scale, arg, target, steps_n, moved, pointer, start, cursor, clickAt>>
    /\ UNCHANGED <<fvars, mrest, clicks>>

\* mac_mouse.py lines 182-183: a rectangle without area returns its origin and
\* touches the pointer not at all.
MacEntryZero ==
    /\ apc = "entry" /\ backend = "mac" /\ ZeroArea(arg)
    /\ ret' = <<Float(arg.x), Float(arg.y)>>
    /\ apc' = "ret"
    /\ UNCHANGED <<backend, display_scale, arg, target, steps_n, moved, pointer, start, cursor, clickAt>>
    /\ UNCHANGED <<fvars, mrest, clicks>>

\* mac_mouse.py lines 185-195: the click point, the scaled target, the number
\* of moves.
MacEntry ==
    /\ apc = "entry" /\ backend = "mac" /\ ~ZeroArea(arg)
    /\ \E rx \in RandomIn(arg.x, arg.padding, Inner(arg.width, arg.padding)),
          ry \in RandomIn(arg.y, arg.padding, Inner(arg.height, arg.padding)),
          n \in Max(1, steps_range[1])..Max(steps_range[1], steps_range[2]) :
            /\ target' = [rx |-> rx, ry |-> ry,
                          x |-> Scaled(rx, display_scale),
                          y |-> Scaled(ry, display_scale)]
            /\ steps_n' = n
    /\ \E s \in Starts : start' = <<Float(s[1]), Float(s[2])>>
    /\ moved' = 0
    /\ apc' = "move"
    /\ UNCHANGED <<backend, display_scale, arg, pointer, cursor, clickAt, ret>>
    /\ UNCHANGED <<fvars, mrest, clicks>>

\* platform_adapter.py lines 78-88: a rectangle without area targets its
\* origin; the loop of line 89 runs max(1, steps) times.
PyEntry ==
    /\ apc = "entry" /\ backend = "pyautogui"
    /\ \E rx \in (IF ZeroArea(arg) THEN {arg.x}
                   ELSE RandomIn(arg.x, arg.padding, Inner(arg.width, arg.padding))),
          ry \in (IF ZeroArea(arg) THEN {arg.y}
                   ELSE RandomIn(arg.y, arg.padding, Inner(arg.height, arg.padding))),
          n \in move_steps[1]..move_steps[2] :
            /\ target' = [rx |-> rx, ry |-> ry, x |-> Float(rx), y |-> Float(ry)]
            /\ steps_n' = Max(1, n)
    /\ \E s \in Starts : start' = <<Float(s[1]), Float(s[2])>>
    /\ moved' = 0
    /\ apc' = "move"
    /\ UNCHANGED <<backend, display_scale, arg, pointer, cursor, clickAt, ret>>
    /\ UNCHANGED <<fvars, mrest, clicks>>

\* One turn of the move loop (mac_mouse.py 197-202, platform_adapter.py
\* 89-94): move_mouse / moveTo, then the short sleep.
ClickMove ==
    /\ apc = "move" /\ moved < steps_n
    /\ moved' = moved + 1
    /\ pointer' = Append(pointer, "move")
    /\ cursor' = MoveAt(start, target, moved, steps_n)
    /\ UNCHANGED <<apc, backend, display_scale, arg, target, steps_n, start, clickAt, ret>>
    /\ UNCHANGED <<fvars, mrest, clicks>>

\* left_click(target_x, target_y) / pyautogui.click(target_x, target_y), and
\* the return of the target (mac_mouse.py 204-205, platform_adapter.py 96-97).
ClickPress ==
    /\ apc = "move" /\ moved = steps_n
    /\ clickAt' = <<target.x, target.y>>
    /\ pointer' = Append(pointer, "click")
    /\ cursor' = [x |-> target.x, y |-> target.y, den |-> 1, jitter |-> 0]
    /\ clicks' = clicks + 1
    /\ ret' = <<target.x, target.y>>
    /\ apc' = "ret"
    /\ UNCHANGED <<backend, display_scale, arg, target, steps_n, moved, start>>
    /\ UNCHANGED <<fvars, mrest>>

\* adapter.random_click_in_rect, one step of it.
RandomClickInRect == MacEntryZero \/ MacEntry \/ PyEntry \/ ClickMove \/ ClickPress

------------------------------------------------------------------------------
(* auto_clicker_mac._normalize_targets, _load_template, _prepare_steps *)

\* str.strip(): leading and trailing blanks removed.
RECURSIVE LStrip(_)
LStrip(s) == IF s # <<>> /\ Head(s) = " " THEN LStrip(Tail(s)) ELSE s

RECURSIVE RStrip(_)
RStrip(s) ==
    IF s # <<>> /\ s[Len(s)] = " " THEN RStrip(SubSeq(s, 1, Len(s) - 1)) ELSE s

Strip(s) == RStrip(LStrip(s))

\* str.split('|'): the pieces between the bars, empty pieces included.
RECURSIVE SplitBar(_, _)
SplitBar(s, piece) ==
    IF s = <<>> THEN <<piece>>
    ELSE IF Head(s) = "|" THEN <<piece>> \o SplitBar(Tail(s), <<>>)
    ELSE SplitBar(Tail(s), Append(piece, Head(s)))

\* [t.strip() for t in pieces if t.strip()]
RECURSIVE StripAll(_)
StripAll(pieces) ==
    IF pieces = <<>> THEN <<>>
    ELSE IF Strip(Head(pieces)) = <<>> THEN StripAll(Tail(pieces))
    ELSE <<Strip(Head(pieces))>> \o StripAll(Tail(pieces))

\* A raw target is [kind, str, list]: kind "none" (the field is absent),
\* "str", "list", or "other" (a number, an object).  The result is
\* [error, targets]; error "" means the list was returned.
normalize_targets(raw_target) ==
    LET targets == IF raw_target.kind = "str"
                   THEN StripAll(SplitBar(raw_target.str, <<>>))
                   ELSE StripAll(raw_target.list)
    IN  IF raw_target.kind = "none" THEN [error |-> "ValueError", targets |-> <<>>]
        ELSE IF raw_target.kind \notin {"str", "list"}
        THEN [error |-> "ValueError", targets |-> <<>>]
        ELSE IF targets = <<>> THEN [error |-> "ValueError", targets |-> <<>>]
        ELSE [error |-> "", targets |-> targets]

\* The image files cv2.imread can load, with the shape of each: ok.png fits
\* the screen, tall.png is narrower than the screen and taller.
Files ==
    [path \in {"ok.png", "tall.png"} |->
        IF path = "ok.png" THEN [width |-> 4, height |-> 2]
        ELSE [width |-> 2, height |-> 5]]

NoImage == [width |-> 0, height |-> 0]

\* a or b, for two path strings ("" stands for None as well).
Or(a, b) == IF a # "" THEN a ELSE b

\* A mutant: the --template argument is not consulted,
\* step_copy.get('template') or './image.png'.
load_template_own(step_copy, a) ==
    LET tpl_path == Or(step_copy.template, "./image.png")
    IN  IF tpl_path \notin DOMAIN Files
        THEN [error |-> "ValueError", image |-> NoImage, thresh |-> 0]
        ELSE [error |-> "",
              image |-> Files[tpl_path],
              thresh |-> IF step_copy.tpl_thresh = <<>> THEN a.tpl_thresh
                         ELSE step_copy.tpl_thresh[1]]

\* The result is [error, image, thresh].  A raw step's optional numbers are
\* <<>> (absent) or <<value>>.
load_template(step_copy, a) ==
    LET tpl_path == Or(Or(step_copy.template, a.template), "./image.png")
    IN  IF tpl_path \notin DOMAIN Files
        THEN [error |-> "ValueError", image |-> NoImage, thresh |-> 0]
        ELSE [error |-> "",
              image |-> Files[tpl_path],
              thresh |-> IF step_copy.tpl_thresh = <<>> THEN a.tpl_thresh
                         ELSE step_copy.tpl_thresh[1]]

OcrConf(step, a) == IF step.ocr_conf = <<>> THEN a.ocr_conf ELSE step.ocr_conf[1]

\* Lines 49-71, for one step: [error, step], error "" when the step is
\* prepared.  `mode not in {...}` raises TypeError for a mode that cannot be
\* hashed (a JSON array or object).
prepare_step(step, a) ==
    LET none == [mode |-> "", targets |-> <<>>, ocr_conf |-> 0,
                 template_image |-> NoImage, tpl_thresh |-> 0]
        fail(e) == [error |-> e, step |-> none]
        t == normalize_targets(step.target)
        l == load_template(step, a)
    IN  IF ~step.isdict THEN fail("ValueError")
        ELSE IF step.mode = "[]" THEN fail("TypeError")
        ELSE IF step.mode \notin {"ocr", "template", "template_ocr"} THEN fail("ValueError")
        ELSE IF step.mode = "ocr"
        THEN IF t.error # "" THEN fail(t.error)
             ELSE [error |-> "",
                   step |-> [none EXCEPT !.mode = "ocr", !.targets = t.targets,
                                         !.ocr_conf = OcrConf(step, a)]]
        ELSE IF step.mode = "template"
        THEN IF l.error # "" THEN fail(l.error)
             ELSE [error |-> "",
                   step |-> [none EXCEPT !.mode = "template", !.template_image = l.image,
                                         !.tpl_thresh = l.thresh]]
        ELSE IF t.error # "" THEN fail(t.error)
             ELSE IF l.error # "" THEN fail(l.error)
             ELSE [error |-> "",
                   step |-> [none EXCEPT !.mode = "template_ocr", !.targets = t.targets,
                                         !.ocr_conf = OcrConf(step, a),
                                         !.template_image = l.image,
                                         !.tpl_thresh = l.thresh]]

\* Lines 47-73: the loop stops at the first step that raises.
RECURSIVE PrepareLoop(_, _, _, _)
PrepareLoop(items, a, idx, prepared) ==
    IF idx > Len(items) THEN [error |-> "", steps |-> prepared]
    ELSE LET r == prepare_step(items[idx], a)
         IN  IF r.error # "" THEN [error |-> r.error, steps |-> <<>>]
             ELSE PrepareLoop(items, a, idx + 1, Append(prepared, r.step))

\* raw_steps is [kind, items]: kind "garbage" (json.loads raises), "other"
\* (JSON, but no array) or "list".
prepare_steps(raw_steps, a) ==
    IF raw_steps.kind = "garbage" THEN [error |-> "ValueError", steps |-> <<>>]
    ELSE IF raw_steps.kind # "list" \/ raw_steps.items = <<>>
    THEN [error |-> "ValueError", steps |-> <<>>]
    ELSE PrepareLoop(raw_steps.items, a, 1, <<>>)

------------------------------------------------------------------------------
(* platform_adapter.get_platform_adapter *)

\* import_ok: whether `import pyautogui` succeeds on this machine.  The
\* result is [error, adapter]; error "" means the adapter was returned.
\* _PyAutoGUIAdapter() is guarded by try/except only on the win branch.
get_platform_adapter(preferred, platform, import_ok) ==
    LET p == Or(preferred, "auto")
        is_mac == platform = "darwin"
        ok(a) == [error |-> "", adapter |-> a]
        fail(e) == [error |-> e, adapter |-> "none"]
    IN  IF p = "auto"
        THEN IF is_mac THEN ok("mac")
             ELSE IF import_ok THEN ok("pyautogui") ELSE fail("ImportError")
        ELSE IF p = "mac"
        THEN IF ~is_mac THEN fail("RuntimeError") ELSE ok("mac")
        ELSE IF p \in {"win", "windows", "pyautogui"}
        THEN IF import_ok THEN ok("pyautogui") ELSE fail("RuntimeError")
        ELSE fail("RuntimeError")

------------------------------------------------------------------------------
(* The screen: what capture_screen_bgr can return *)

\* An image is [width, height, surface, dets]: its shape, its similarity
\* surface with the reference image ok.png, and the detections pytesseract
\* reports on it.  The screen is 7 x 3, so that surface is 4 x 2.
ScreenW == 7

ScreenH == 3

Image(surface, dets) ==
    [width |-> ScreenW, height |-> ScreenH, surface |-> surface, dets |-> dets]

NoFrame == [width |-> 0, height |-> 0, surface |-> <<>>, dets |-> <<>>]

Low == <<10, 10, 10, 10>>

Det(text, conf, left, top, width, height) ==
    [text |-> text, conf |-> conf, left |-> left, top |-> top,
     width |-> width, height |-> height]

Blank == Image(<<Low, Low>>, <<>>)

\* Two texts, both of them keywords of the text step.
TextFrame ==
    Image(<<Low, Low>>,
          <<Det(<<"G", "o">>, 900, 5, 1, 2, 1), Det(<<"O", "K">>, 950, 1, 0, 2, 1)>>)

\* The reference twice; the text is inside the second copy only.
TwoHits ==
    Image(<<<<90, 10, 10, 10>>, <<10, 10, 10, 99>>>>,
          <<Det(<<"O", "K">>, 900, 4, 1, 3, 2)>>)

\* The reference once, with the text inside it.
TplText ==
    Image(<<Low, <<10, 95, 10, 10>>>>,
          <<Det(<<"o", "k">>, 905, 2, 2, 2, 1)>>)

Frames == {Blank, TextFrame, TwoHits, TplText}

\* img[y:y + h, x:x + w]: the detections that lie inside the region, at
\* their positions relative to the crop.
RECURSIVE CropDets(_, _, _, _, _)
CropDets(dets, x, y, w, h) ==
    IF dets = <<>> THEN <<>>
    ELSE LET d == Head(dets)
             inside == /\ x <= d.left /\ d.left + d.width <= x + w
                       /\ y <= d.top /\ d.top + d.height <= y + h
             rest == CropDets(Tail(dets), x, y, w, h)
         IN  IF inside
             THEN <<[d EXCEPT !.left = d.left - x, !.top = d.top - y]>> \o rest
             ELSE rest

Min(a, b) == IF a <= b THEN a ELSE b

\* The slice is cut off at the edges of the image.
Crop(img, x, y, w, h) ==
    [width |-> Max(Min(x + w, img.width) - Min(x, img.width), 0),
     height |-> Max(Min(y + h, img.height) - Min(y, img.height), 0),
     surface |-> <<>>,
     dets |-> CropDets(img.dets, x, y, w, h)]

------------------------------------------------------------------------------
(* auto_clicker_mac._wait_for_step: one evaluation of a step on a frame *)

Rect(x, y, w, h) == [x |-> x, y |-> y, width |-> w, height |-> h]

NoRect == Rect(0, 0, 0, 0)

Op(name, on) == [op |-> name, on |-> on]

\* A mutant: the box is handed on as it is, relative to the crop.
OffsetRectNone(x, y, box) == Rect(box[1], box[2], box[3], box[4])

\* Line 127: the rectangle of a text box found inside the crop at (x, y).
OffsetRect(x, y, box) == Rect(x + box[1], y + box[2], box[3], box[4])

\* cv2.matchTemplate(image_bgr, template_bgr, cv2.TM_CCOEFF_NORMED), line 98:
\* [error, result].  A reference larger than the image in one direction and
\* smaller in the other fails OpenCV's size assertion; one at least as large
\* in both is swapped with the image, and the surface is that of the image
\* inside the reference (no position of it scores here).  The surface of a
\* reference that fits is the frame's.
matchTemplate(img, templ) ==
    LET needswap == img.height < templ.height \/ img.width < templ.width
    IN  IF needswap /\ ~(img.height <= templ.height /\ img.width <= templ.width)
        THEN [error |-> "cv2.error", result |-> <<>>]
        ELSE IF needswap
        THEN [error |-> "",
              result |-> [row \in 1..(templ.height - img.height + 1) |->
                             [col \in 1..(templ.width - img.width + 1) |-> 10]]]
        ELSE [error |-> "", result |-> img.surface]

\* find_template_matches on an image: lines 95-98 and then the loop, as
\* [error, matches].
TemplateSearch(img, template, threshold) ==
    LET r == matchTemplate(img, template)
    IN  IF template.width * template.height = 0 THEN [error |-> "", matches |-> <<>>]
        ELSE IF r.error # "" THEN [error |-> r.error, matches |-> <<>>]
        ELSE [error |-> "",
              matches |-> find_template_matches(r.result, template, threshold)]

\* find_text_boxes on an image: cv2.cvtColor of line 45 fails on an image
\* without pixels; otherwise the detections of the image are filtered.
TextSearch(img, keywords, conf_min) ==
    IF img.width * img.height = 0 THEN [error |-> "cv2.error", boxes |-> <<>>]
    ELSE [error |-> "", boxes |-> find_text_boxes(img.dets, keywords, conf_min)]

\* An evaluation is [error, ops, matches, boxes, hit, rect].
Raised(e, ops) ==
    [error |-> e, ops |-> ops, matches |-> <<>>, boxes |-> <<>>, hit |-> FALSE,
     rect |-> NoRect]

\* Lines 81-93.
EvalOcr(step, img) ==
    LET t == TextSearch(img, step.targets, step.ocr_conf)
        b == t.boxes
    IN  IF t.error # "" THEN Raised(t.error, <<Op("text", NoRect)>>)
        ELSE [error |-> "",
              ops |-> <<Op("text", NoRect)>>, matches |-> <<>>, boxes |-> b,
              hit |-> b # <<>>,
              rect |-> IF b # <<>> THEN Rect(b[1][1], b[1][2], b[1][3], b[1][4])
                       ELSE NoRect]

\* A mutant: the match with the highest score is clicked, not the first.
EvalTemplateBest(step, img) ==
    LET s == TemplateSearch(img, step.template_image, step.tpl_thresh)
        m == s.matches
        best == CHOOSE k \in 1..Len(m) : \A j \in 1..Len(m) : m[j][5] <= m[k][5]
    IN  IF s.error # "" THEN Raised(s.error, <<Op("template", NoRect)>>)
        ELSE [error |-> "",
              ops |-> <<Op("template", NoRect)>>, matches |-> m, boxes |-> <<>>,
              hit |-> m # <<>>,
              rect |-> IF m # <<>>
                       THEN Rect(m[best][1], m[best][2], m[best][3], m[best][4])
                       ELSE NoRect]

\* Lines 95-109.
EvalTemplate(step, img) ==
    LET s == TemplateSearch(img, step.template_image, step.tpl_thresh)
        m == s.matches
    IN  IF s.error # "" THEN Raised(s.error, <<Op("template", NoRect)>>)
        ELSE [error |-> "",
              ops |-> <<Op("template", NoRect)>>, matches |-> m, boxes |-> <<>>,
              hit |-> m # <<>>,
              rect |-> IF m # <<>> THEN Rect(m[1][1], m[1][2], m[1][3], m[1][4])
                       ELSE NoRect]

\* The rest of a template-then-text evaluation once the candidate c of the
\* match list m is picked: lines 117-139.
TextInCandidate(step, img, m, c) ==
    LET x == c[1]
        y == c[2]
        w == c[3]
        h == c[4]
        t == TextSearch(Crop(img, x, y, w, h), step.targets, step.ocr_conf)
        b == t.boxes
        ops == <<Op("template", NoRect), Op("text", Rect(x, y, w, h))>>
    IN  IF t.error # "" THEN Raised(t.error, ops)
        ELSE [error |-> "", ops |-> ops, matches |-> m, boxes |-> b,
              hit |-> b # <<>>,
              rect |-> IF b # <<>> THEN OffsetRect(x, y, b[1]) ELSE NoRect]

\* A mutant: the text is looked for in the last template match, not the first.
EvalTemplateOcrLast(step, img) ==
    LET s == TemplateSearch(img, step.template_image, step.tpl_thresh)
        m == s.matches
    IN  IF s.error # "" THEN Raised(s.error, <<Op("template", NoRect)>>)
        ELSE IF m = <<>>
        THEN [error |-> "", ops |-> <<Op("template", NoRect)>>, matches |-> m,
              boxes |-> <<>>, hit |-> FALSE, rect |-> NoRect]
        ELSE TextInCandidate(step, img, m, m[Len(m)])

\* Lines 111-139.
EvalTemplateOcr(step, img) ==
    LET s == TemplateSearch(img, step.template_image, step.tpl_thresh)
        m == s.matches
    IN  IF s.error # "" THEN Raised(s.error, <<Op("template", NoRect)>>)
        ELSE IF m = <<>>
        THEN [error |-> "", ops |-> <<Op("template", NoRect)>>, matches |-> m,
              boxes |-> <<>>, hit |-> FALSE, rect |-> NoRect]
        ELSE TextInCandidate(step, img, m, m[1])

Evaluation(step, img) ==
    IF step.mode = "ocr" THEN EvalOcr(step, img)
    ELSE IF step.mode = "template" THEN EvalTemplate(step, img)
    ELSE EvalTemplateOcr(step, img)

------------------------------------------------------------------------------
(* The command lines and machines the model starts from *)

NoTarget == [kind |-> "none", str |-> <<>>, list |-> <<>>]

StrTarget(str) == [kind |-> "str", str |-> str, list |-> <<>>]

ListTarget(list) == [kind |-> "list", str |-> <<>>, list |-> list]

NumberTarget == [kind |-> "other", str |-> <<>>, list |-> <<>>]

RawStep(isdict, mode, raw_target, template, tpl_thresh) ==
    [isdict |-> isdict, mode |-> mode, target |-> raw_target, template |-> template,
     tpl_thresh |-> tpl_thresh, ocr_conf |-> <<>>]

\* {"mode": "ocr", "target": "ok| go"}
OcrStep == RawStep(TRUE, "ocr", StrTarget(<<"o", "k", "|", " ", "g", "o">>), "", <<>>)

\* {"mode": "template", "template": "ok.png", "tpl_thresh": 0.9}
TemplateStep == RawStep(TRUE, "template", NoTarget, "ok.png", <<90>>)

\* {"mode": "template_ocr", "target": ["OK", " "], "template": "ok.png"}
TemplateOcrStep ==
    RawStep(TRUE, "template_ocr", ListTarget(<<<<"O", "K">>, <<" ">>>>), "ok.png", <<>>)

\* {"mode": "template", "template": "tall.png"}
TallTemplateStep == RawStep(TRUE, "template", NoTarget, "tall.png", <<>>)

GoodSteps == {OcrStep, TemplateStep, TemplateOcrStep, TallTemplateStep}

BadSteps ==
    { RawStep(FALSE, "", NoTarget, "", <<>>),                      \* not an object
      RawStep(TRUE, "click", NoTarget, "", <<>>),                  \* unknown mode
      RawStep(TRUE, "[]", NoTarget, "", <<>>),                     \* the mode is an array
      RawStep(TRUE, "ocr", NoTarget, "", <<>>),                    \* no target
      RawStep(TRUE, "ocr", StrTarget(<<" ", "|", " ">>), "", <<>>),\* blank keywords
      RawStep(TRUE, "template_ocr", NumberTarget, "ok.png", <<>>), \* target is a number
      RawStep(TRUE, "template", NoTarget, "bad.png", <<>>) }       \* unreadable image

AllSteps == GoodSteps \cup BadSteps

\* Lines 218-232: the parsed command line, with argparse's defaults for the
\* template, the threshold and the confidence floor.
ArgsOf(platform, raw_steps, interval) ==
    [platform |-> platform, steps |-> raw_steps, template |-> "",
     tpl_thresh |-> 86, ocr_conf |-> 60,
     min_interval |-> interval[1], max_interval |-> interval[2]]

\* --min_interval and --max_interval, in seconds: argparse takes any two
\* floats.  A proper interval, and one that reaches below zero.
Intervals == {<<1, 2>>, <<0 - 1, 1>>}

\* The values random.uniform(a, b) can return, a + (b - a) * random(), in
\* whole seconds.
Uniform(a, b) == (IF a <= b THEN a ELSE b)..(IF a <= b THEN b ELSE a)

\* The entry a sleep of d seconds leaves in the iteration's trace.
SleepOp(d) == [op |-> "sleep", on |-> NoRect, secs |-> d]

PlatformChoices == {"auto", "mac", "win", "bogus"}

\* The machines: sys.platform and the backing scale factor of the main
\* screen.  A Mac with a display of scale 2, and a Linux machine.
Machines == {[platform |-> "darwin", scale |-> 2], [platform |-> "linux", scale |-> 1]}

NoArg == [x |-> 0, y |-> 0, width |-> 0, height |-> 0, padding |-> 0]

NoTarget2 == [rx |-> 0, ry |-> 0, x |-> 0, y |-> 0]

------------------------------------------------------------------------------
(* auto_clicker_mac.main, _run_sequence, _wait_for_step *)

\* Lines 161-165.  _MacAdapter() imports mac_mouse, whose lines 52-102 set
\* _display_scale from the main screen's backing scale factor.
MainGetAdapter ==
    /\ pc = "main"
    /\ \E import_ok \in BOOLEAN :
        LET r == get_platform_adapter(args.platform, env.platform, import_ok)
        IN  \/ /\ r.error = ""
               /\ backend' = r.adapter
               /\ display_scale' = (IF r.adapter = "mac" THEN env.scale ELSE 1)
               /\ pc' = "prepare"
               /\ UNCHANGED <<printed, outcome>>
            \/ /\ r.error = "RuntimeError"
               /\ printed' = "error"
               /\ outcome' = "returned"
               /\ pc' = "done"
               /\ UNCHANGED <<backend, display_scale>>
            \/ /\ r.error \notin {"", "RuntimeError"}
               /\ outcome' = "raised"
               /\ pc' = "done"
               /\ UNCHANGED <<backend, display_scale, printed>>
    /\ UNCHANGED <<args, env, steps, step_index, current_step, frame, matches, boxes, trace, polled,
                   captures, hits, clicks>>
    /\ UNCHANGED <<fvars, apc, arg, target, steps_n, moved, pointer, start, cursor, clickAt, ret>>

\* Lines 167-173, up to the call of _run_sequence.
MainPrepare ==
    /\ pc = "prepare"
    /\ LET r == prepare_steps(args.steps, args)
       IN  \/ /\ r.error = ""
              /\ steps' = r.steps
              /\ pc' = "run"
              /\ UNCHANGED <<printed, outcome>>
           \/ /\ r.error = "ValueError"
              /\ printed' = "error"
              /\ outcome' = "returned"
              /\ pc' = "done"
              /\ UNCHANGED steps
           \/ /\ r.error \notin {"", "ValueError"}
              /\ outcome' = "raised"
              /\ pc' = "done"
              /\ UNCHANGED <<steps, printed>>
    /\ UNCHANGED <<args, env, step_index, current_step, frame, matches, boxes, trace, polled,
                   captures, hits, clicks>>
    /\ UNCHANGED <<fvars, avars>>

\* Lines 145-146.
RunSequence ==
    /\ pc = "run"
    /\ printed' = "started"
    /\ step_index' = 0
    /\ UNCHANGED current_step
    /\ pc' = "loop"
    /\ UNCHANGED <<args, env, steps, frame, matches, boxes, trace, polled,
                   captures, hits, clicks, outcome>>
    /\ UNCHANGED <<fvars, avars>>

\* Before line 149 has run, _run_sequence has no step.
NoStep == [mode |-> ""]

\* A mutant: the step is fetched once, before the loop: every call of
\* _wait_for_step gets the first step.
StepBeginFirst ==
    /\ pc = "loop"
    /\ current_step' = steps[1]
    /\ polled' = Append(polled, step_index)
    /\ pc' = "capture"
    /\ UNCHANGED <<args, env, steps, step_index, frame, matches, boxes, trace,
                   captures, hits, clicks, printed, outcome>>
    /\ UNCHANGED <<fvars, avars>>

\* Lines 149-152 and 77: the step is fetched and _wait_for_step entered.
StepBegin ==
    /\ pc = "loop"
    /\ current_step' = steps[step_index + 1]
    /\ polled' = Append(polled, step_index)
    /\ pc' = "capture"
    /\ UNCHANGED <<args, env, steps, step_index, frame, matches, boxes, trace,
                   captures, hits, clicks, printed, outcome>>
    /\ UNCHANGED <<fvars, avars>>

\* The entry a capture leaves in the iteration's trace: what the screen
\* showed.
CaptureOp(img) == [op |-> "capture", on |-> NoRect, img |-> img]

\* A mutant: the frame of the step's first iteration is kept and evaluated
\* again in the later ones.
CaptureKept ==
    /\ pc = "capture"
    /\ captures < MaxCaptures
    /\ \E img \in Frames :
          /\ frame' = (IF frame = NoFrame THEN img ELSE frame)
          /\ trace' = <<CaptureOp(img)>>
    /\ captures' = captures + 1
    /\ matches' = <<>>
    /\ boxes' = <<>>
    /\ pc' = "evaluate"
    /\ UNCHANGED <<args, env, steps, step_index, current_step, polled, hits, clicks, printed, outcome>>
    /\ UNCHANGED <<fvars, avars>>

\* Line 79: a polling iteration begins with a fresh capture.
Capture ==
    /\ pc = "capture"
    /\ captures < MaxCaptures
    /\ \E img \in Frames :
          /\ frame' = img
          /\ trace' = <<CaptureOp(img)>>
    /\ captures' = captures + 1
    /\ matches' = <<>>
    /\ boxes' = <<>>
    /\ pc' = "evaluate"
    /\ UNCHANGED <<args, env, steps, step_index, current_step, polled, hits, clicks, printed, outcome>>
    /\ UNCHANGED <<fvars, avars>>

\* Lines 80-139 up to the call of the actuator, or to the "not found" print.
\* An exception of the matching functions is no KeyboardInterrupt: it leaves
\* _run_sequence and main.
Evaluate ==
    /\ pc = "evaluate"
    /\ LET e == Evaluation(current_step, frame)
       IN  /\ trace' = trace \o e.ops
                        \o (IF e.hit THEN <<Op("actuate", e.rect)>> ELSE <<>>)
           /\ matches' = e.matches
           /\ boxes' = e.boxes
           /\ \/ /\ e.error = "" /\ e.hit
                 /\ hits' = hits + 1
                 /\ arg' = [x |-> e.rect.x, y |-> e.rect.y, width |-> e.rect.width,
                            height |-> e.rect.height, padding |-> DefaultPadding]
                 /\ apc' = "entry"
                 /\ pointer' = <<>>
                 /\ start' = NoStart
                 /\ cursor' = NoCursor
                 /\ clickAt' = <<>>
                 /\ ret' = <<>>
                 /\ pc' = "acting"
                 /\ UNCHANGED outcome
              \/ /\ e.error = "" /\ ~e.hit
                 /\ pc' = "sleep"
                 /\ UNCHANGED <<hits, arg, apc, pointer, start, cursor, clickAt, ret, outcome>>
              \/ /\ e.error # ""
                 /\ outcome' = "raised"
                 /\ pc' = "done"
                 /\ UNCHANGED <<hits, arg, apc, pointer, start, cursor, clickAt, ret>>
    /\ UNCHANGED <<args, env, steps, step_index, current_step, frame, polled, captures, clicks,
                   printed>>
    /\ UNCHANGED <<fvars, backend, display_scale, target, steps_n, moved>>

\* A mutant: the `return` after the click is missing; the step sleeps and is
\* polled again.
StepReturnMissing ==
    /\ pc = "acting" /\ apc = "ret"
    /\ apc' = "idle"
    /\ arg' = NoArg /\ target' = NoTarget2 /\ steps_n' = 0 /\ moved' = 0
    /\ pointer' = <<>> /\ clickAt' = <<>> /\ ret' = <<>>
    /\ start' = NoStart /\ cursor' = NoCursor
    /\ pc' = "sleep"
    /\ UNCHANGED <<args, env, steps, step_index, current_step, frame, matches, boxes, trace, polled,
                   captures, hits, clicks, printed, outcome>>
    /\ UNCHANGED <<fvars, backend, display_scale>>

\* A mutant: the index is not wrapped, the last step is polled again.
StepReturnNoWrap ==
    /\ pc = "acting" /\ apc = "ret"
    /\ apc' = "idle"
    /\ arg' = NoArg /\ target' = NoTarget2 /\ steps_n' = 0 /\ moved' = 0
    /\ pointer' = <<>> /\ clickAt' = <<>> /\ ret' = <<>>
    /\ start' = NoStart /\ cursor' = NoCursor
    /\ frame' = NoFrame /\ matches' = <<>> /\ boxes' = <<>> /\ trace' = <<>>
    /\ step_index' = (IF step_index + 1 < Len(steps) THEN step_index + 1 ELSE step_index)
    /\ UNCHANGED current_step
    /\ pc' = "loop"
    /\ UNCHANGED <<args, env, steps, polled, captures, hits, clicks, printed, outcome>>
    /\ UNCHANGED <<fvars, backend, display_scale>>

\* Lines 89-91 (102-107, 127-132) and 153: the actuator has returned, the
\* click is logged, _wait_for_step returns (its locals and the actuator's are
\* gone) and the index advances.
StepReturn ==
    /\ pc = "acting" /\ apc = "ret"
    /\ apc' = "idle"
    /\ arg' = NoArg /\ target' = NoTarget2 /\ steps_n' = 0 /\ moved' = 0
    /\ pointer' = <<>> /\ clickAt' = <<>> /\ ret' = <<>>
    /\ start' = NoStart /\ cursor' = NoCursor
    /\ frame' = NoFrame /\ matches' = <<>> /\ boxes' = <<>> /\ trace' = <<>>
    /\ step_index' = (step_index + 1) % Len(steps)
    /\ UNCHANGED current_step
    /\ pc' = "loop"
    /\ UNCHANGED <<args, env, steps, polled, captures, hits, clicks, printed, outcome>>
    /\ UNCHANGED <<fvars, backend, display_scale>>

\* A mutant: a step that found nothing is given up after its sleep.
SleepGivesUp ==
    /\ pc = "sleep"
    /\ \E d \in Uniform(args.min_interval, args.max_interval) :
          \/ /\ d >= 0
             /\ trace' = Append(trace, SleepOp(d))
             /\ step_index' = (step_index + 1) % Len(steps)
             /\ pc' = "loop"
             /\ UNCHANGED outcome
          \/ /\ d < 0
             /\ outcome' = "raised"
             /\ pc' = "done"
             /\ UNCHANGED <<trace, step_index>>
    /\ UNCHANGED <<args, env, steps, current_step, frame, matches, boxes, polled,
                   captures, hits, clicks, printed>>
    /\ UNCHANGED <<fvars, avars>>

\* A mutant: the duration is drawn from [0, max], random.uniform(0, max).
SleepFromZero ==
    /\ pc = "sleep"
    /\ \E d \in Uniform(0, args.max_interval) :
          \/ /\ d >= 0
             /\ trace' = Append(trace, SleepOp(d))
             /\ pc' = "capture"
             /\ UNCHANGED outcome
          \/ /\ d < 0
             /\ outcome' = "raised"
             /\ pc' = "done"
             /\ UNCHANGED trace
    /\ UNCHANGED <<args, env, steps, step_index, current_step, frame, matches, boxes, polled,
                   captures, hits, clicks, printed>>
    /\ UNCHANGED <<fvars, avars>>

\* Line 141: no match; time.sleep(random.uniform(*interval_range)), then the
\* same step is polled again.  time.sleep raises ValueError for a negative
\* duration, and that leaves _run_sequence and main.
Sleep ==
    /\ pc = "sleep"
    /\ \E d \in Uniform(args.min_interval, args.max_interval) :
          \/ /\ d >= 0
             /\ trace' = Append(trace, SleepOp(d))
             /\ pc' = "capture"
             /\ UNCHANGED outcome
          \/ /\ d < 0
             /\ outcome' = "raised"
             /\ pc' = "done"
             /\ UNCHANGED trace
    /\ UNCHANGED <<args, env, steps, step_index, current_step, frame, matches, boxes, polled,
                   captures, hits, clicks, printed>>
    /\ UNCHANGED <<fvars, avars>>

\* Lines 147 and 154-155: KeyboardInterrupt is raised in the main thread
\* wherever it is inside the try block, time.sleep and the move loop of the
\* actuator included.  The calls in flight are abandoned with their locals,
\* the handler prints the notice and main returns.  What the abandoned call
\* had done to the pointer stays done.
Interrupt ==
    /\ pc \in {"loop", "capture", "evaluate", "acting", "sleep"}
    /\ printed' = "stopped"
    /\ outcome' = "returned"
    /\ pc' = "done"
    /\ apc' = "idle"
    /\ arg' = NoArg /\ target' = NoTarget2 /\ steps_n' = 0 /\ moved' = 0 /\ ret' = <<>>
    /\ frame' = NoFrame /\ matches' = <<>> /\ boxes' = <<>> /\ trace' = <<>>
    /\ current_step' = NoStep
    /\ UNCHANGED <<args, env, steps, step_index, polled, captures, hits, clicks>>
    /\ start' = NoStart /\ cursor' = NoCursor
    /\ UNCHANGED <<fvars, backend, display_scale, pointer, clickAt>>

\* The actuator runs inside _wait_for_step only.
Acting == pc = "acting" /\ RandomClickInRect

InitFn == fpc = "none" /\ fin = <<>> /\ fout = <<>>

InitActuator ==
    /\ apc = "idle" /\ backend = "none" /\ arg = NoArg /\ target = NoTarget2
    /\ steps_n = 0 /\ moved = 0 /\ pointer = <<>> /\ clickAt = <<>> /\ ret = <<>>
    /\ start = NoStart /\ cursor = NoCursor

InitMain ==
    /\ steps = <<>> /\ step_index = 0 /\ current_step = NoStep /\ frame = NoFrame /\ matches = <<>>
    /\ boxes = <<>> /\ trace = <<>> /\ polled = <<>> /\ captures = 0 /\ hits = 0
    /\ clicks = 0 /\ printed = "" /\ outcome = "running"

\* The process starts: lines 217-233 and mac_mouse.py 52-102.
Init ==
    /\ InitFn /\ InitActuator /\ InitMain
    /\ pc = "main"
    /\ \E p \in PlatformChoices :
          \E i \in Intervals :
              \/ \E k \in {"garbage", "other"} :
                    args = ArgsOf(p, [kind |-> k, items |-> <<>>], i)
              \/ \E n \in 0..MaxSteps :
                    \E l \in [1..n -> AllSteps] :
                        args = ArgsOf(p, [kind |-> "list", items |-> l], i)
    /\ env \in Machines
    /\ display_scale = 1

Next ==
    \/ MainGetAdapter
    \/ MainPrepare
    \/ RunSequence
    \/ StepBegin
    \/ Capture
    \/ Evaluate
    \/ Acting
    \/ StepReturn
    \/ Sleep
    \/ Interrupt

Spec == Init /\ [][Next]_vars

\* The steps of the runs whose progress is followed: a text step, a step
\* that wants the text inside the image, and the step whose search raises.
LiveSteps == {OcrStep, TemplateOcrStep, TallTemplateStep}

\* The runs of `--platform auto --min_interval -1 --max_interval 1` with a
\* list of such steps.
InitLive ==
    /\ Init
    /\ args.platform = "auto"
    /\ <<args.min_interval, args.max_interval>> = <<0 - 1, 1>>
    /\ args.steps.kind = "list"
    /\ \A k \in 1..Len(args.steps.items) : args.steps.items[k] \in LiveSteps

\* The program is one thread that runs as long as it is not at its end: in
\* the polling loop a step it can take, it takes; sleeps and pointer moves
\* end.  The interrupt comes from outside and has no fairness.  Evaluate is
\* enabled exactly where pc = "evaluate" and always leaves it, so that its
\* weak fairness is written as the position being left again and again.
LiveSpec ==
    /\ InitLive /\ [][Next]_vars
    /\ WF_vars(StepBegin) /\ WF_vars(Capture) /\ []<>(pc # "evaluate")
    /\ WF_vars(Acting) /\ WF_vars(StepReturn) /\ WF_vars(Sleep)

------------------------------------------------------------------------------
(* find_text_boxes on its own: every short list of detections *)

\* Longest list of detections handed to find_text_boxes directly.
MaxDets == 2

OcrTexts == {<<>>, <<"O", "K">>, <<"g", "o">>, <<"k">>}

\* Confidences in tenths: -1 (no text), 59.5, 60, 60.5.
OcrConfs == {0 - 10, 595, 600, 605}

DetChoices == {Det(t, c, 1, 2, 3, 1) : t \in OcrTexts, c \in OcrConfs}

KeywordLists == {<<<<"o", "k">>>>, <<<<"G", "O">>, <<"o", "k">>>>,
                 <<<<"k">>, <<"O", "k">>>>}

\* Everything outside main: no command line, no run.
NoMain ==
    /\ InitMain /\ pc = "none"
    /\ args = ArgsOf("", [kind |-> "other", items |-> <<>>], <<0, 0>>)
    /\ env = [platform |-> "", scale |-> 1]

InitOcr ==
    /\ fpc = "call" /\ fout = <<>>
    /\ \E n \in 0..MaxDets :
          \E d \in [1..n -> DetChoices], k \in KeywordLists, c \in {0, 60} :
              fin = [ocr_data |-> d, keywords |-> k, conf_min |-> c]
    /\ InitActuator /\ display_scale = 1 /\ NoMain

CallFindTextBoxes ==
    /\ fpc = "call"
    /\ fout' = find_text_boxes(fin.ocr_data, fin.keywords, fin.conf_min)
    /\ fpc' = "done"
    /\ UNCHANGED <<fin, avars, mvars>>

SpecOcr == InitOcr /\ [][CallFindTextBoxes]_vars

------------------------------------------------------------------------------
(* _prepare_steps on its own: every short step list, with and without the
   --template argument *)

\* {"mode": "template"} and {"mode": "template_ocr", "target": "ok"}: steps
\* without a template field.
BareTemplateSteps ==
    { RawStep(TRUE, "template", NoTarget, "", <<>>),
      RawStep(TRUE, "template_ocr", StrTarget(<<"o", "k">>), "", <<>>) }

\* The values of --template: not given, a file that loads, one that does not.
TemplateArgs == {"", "ok.png", "bad.png"}

InitPrep ==
    /\ fpc = "call" /\ fout = <<>>
    /\ \E n \in 0..MaxSteps :
          \E l \in [1..n -> AllSteps \cup BareTemplateSteps], t \in TemplateArgs :
              LET raw_steps == [kind |-> "list", items |-> l]
              IN  fin = [raw_steps |-> raw_steps,
                         args |-> [ArgsOf("auto", raw_steps, <<1, 2>>)
                                      EXCEPT !.template = t]]
    /\ InitActuator /\ display_scale = 1 /\ NoMain

CallPrepareSteps ==
    /\ fpc = "call"
    /\ fout' = prepare_steps(fin.raw_steps, fin.args)
    /\ fpc' = "done"
    /\ UNCHANGED <<fin, avars, mvars>>

SpecPrep == InitPrep /\ [][CallPrepareSteps]_vars

------------------------------------------------------------------------------
(* find_template_matches on its own: every surface with a few hits *)

\* Width and height of the similarity surfaces handed to it directly.
GridW == 3

GridH == 2

\* Most positions of a surface at or above the threshold.
MaxHits == 3

\* Largest width and height of the reference image.
MaxTpl == 6

Cells == (0..(GridW - 1)) \X (0..(GridH - 1))

RECURSIVE SubsetsUpTo(_, _)
SubsetsUpTo(S, k) ==
    IF k = 0 THEN {{}}
    ELSE LET smaller == SubsetsUpTo(S, k - 1)
         IN  smaller \cup {s \cup {c} : s \in smaller, c \in S}

\* A surface with score 95 on `strong`, 86 (the threshold itself) on the
\* rest of `at`, and 10 elsewhere.
Surface(at, strong) ==
    [row \in 1..GridH |->
        [col \in 1..GridW |->
            IF <<col - 1, row - 1>> \in strong THEN 95
            ELSE IF <<col - 1, row - 1>> \in at THEN 86
            ELSE 10]]

InitTpl ==
    /\ fpc = "call" /\ fout = <<>>
    /\ \E at \in SubsetsUpTo(Cells, MaxHits) :
          \E strong \in SUBSET at, w \in 0..MaxTpl, h \in 0..MaxTpl :
              fin = [result |-> Surface(at, strong),
                     template |-> [width |-> w, height |-> h],
                     threshold |-> 86]
    /\ InitActuator /\ display_scale = 1 /\ NoMain

CallFindTemplateMatches ==
    /\ fpc = "call"
    /\ fout' = find_template_matches(fin.result, fin.template, fin.threshold)
    /\ fpc' = "done"
    /\ UNCHANGED <<fin, avars, mvars>>

SpecTpl == InitTpl /\ [][CallFindTemplateMatches]_vars

------------------------------------------------------------------------------
(* random_click_in_rect on its own: every small rectangle and padding *)

InitClick ==
    /\ InitFn /\ NoMain
    /\ apc = "entry"
    /\ backend \in {"mac", "pyautogui"}
    /\ display_scale \in (IF backend = "mac" THEN DisplayScales ELSE {1})
    /\ \E o \in {<<0, 0>>, <<3, 1>>}, w \in (0 - 1)..MaxRect, h \in (0 - 1)..MaxRect,
          p \in 0..MaxPad :
            arg = [x |-> o[1], y |-> o[2], width |-> w, height |-> h, padding |-> p]
    /\ target = NoTarget2 /\ steps_n = 0 /\ moved = 0
    /\ pointer = <<>> /\ clickAt = <<>> /\ ret = <<>>
    /\ start = NoStart /\ cursor = NoCursor

SpecClick == InitClick /\ [][RandomClickInRect]_vars

------------------------------------------------------------------------------
(* The multi-step loop: advancing and order *)

\* The match list the step in hand acts on: the template matches of a
\* template step, the text boxes of the other two.
StepMatchList ==
    IF steps[step_index + 1].mode = "template" THEN matches ELSE boxes

\* How often this polling iteration called the actuator.
ActuatorCalls == Cardinality({k \in 1..Len(trace) : trace[k].op = "actuate"})

\* C1: the step index changes only at the return of a polling iteration of
\* that same step whose match list was not empty and which called the
\* actuator exactly once; as long as no iteration has matched, every polled
\* step is the first one and nothing has been clicked.
C1_NoAdvanceWithoutMatch ==
    /\ [](hits = 0 => /\ step_index = 0
                      /\ clicks = 0
                      /\ \A k \in 1..Len(polled) : polled[k] = 0)
    /\ [][step_index' # step_index =>
              /\ pc = "acting" /\ apc = "ret"
              /\ trace[1].op = "capture"
              /\ polled[Len(polled)] = step_index
              /\ StepMatchList # <<>>
              /\ ActuatorCalls = 1]_vars

\* A second step is reached after one failed and one successful poll of the
\* first.
C1_Witness ==
    /\ pc = "loop" /\ step_index = 1 /\ Len(steps) = 2
    /\ captures = 2 /\ hits = 1 /\ clicks = 1

\* C2: the steps are polled in round-robin order from the first one, the
\* return of the actuator leads straight to the next step, and the next
\* step's polling starts with its capture.
C2_RoundRobin ==
    /\ [](\A k \in 1..Len(polled) : polled[k] = (k - 1) % Len(steps))
    /\ [][(pc = "acting" /\ apc = "ret" /\ pc' # "done") =>
              /\ pc' = "loop"
              /\ step_index' = (step_index + 1) % Len(steps)]_vars
    /\ [][(pc = "loop" /\ pc' # "done") =>
              /\ pc' = "capture"
              /\ polled' = Append(polled, step_index)]_vars

\* Two steps, both matched, and the first one polled again.
C2_Witness ==
    /\ Len(steps) = 2 /\ polled = <<0, 1, 0>> /\ pc = "capture" /\ clicks = 2

------------------------------------------------------------------------------
(* Template search: duplicate suppression *)

\* The positions of a surface at or above the threshold.
AboveThreshold(surface, threshold) ==
    {p \in (0..(Cols(surface) - 1)) \X (0..(Rows(surface) - 1)) :
        surface[p[2] + 1][p[1] + 1] >= threshold}

\* C3: no two returned candidates lie within half the reference width and
\* half the reference height of each other, the half itself included.
C3_HalfSizeSuppression ==
    fpc = "done" =>
        \A i, j \in 1..Len(fout) :
            i # j =>
                ~(/\ 2 * Abs(fout[i][1] - fout[j][1]) <= fin.template.width
                  /\ 2 * Abs(fout[i][2] - fout[j][2]) <= fin.template.height)

\* C3, as the code has it: no two returned candidates lie closer than the
\* whole-number half of the reference width and closer than the whole-number
\* half of the reference height of each other; those halves themselves are
\* far enough.
C3_FloorHalfSuppression ==
    fpc = "done" =>
        \A i, j \in 1..Len(fout) :
            i # j =>
                ~(/\ Abs(fout[i][1] - fout[j][1]) < fin.template.width \div 2
                  /\ Abs(fout[i][2] - fout[j][2]) < fin.template.height \div 2)

\* A 4 x 4 reference and three positions at the threshold: (2, 0), exactly
\* half a width from (0, 0), is returned next to it, and (0, 1), a duplicate
\* of (0, 0) but not of (2, 0), is suppressed.
C3_Witness ==
    /\ fpc = "done"
    /\ fin.template = [width |-> 4, height |-> 4]
    /\ AboveThreshold(fin.result, fin.threshold) = {<<0, 0>>, <<2, 0>>, <<0, 1>>}
    /\ Len(fout) = 2
    /\ fout[1][1] = 0 /\ fout[1][2] = 0
    /\ fout[2][1] = 2 /\ fout[2][2] = 0

------------------------------------------------------------------------------
(* The actuator's contract *)

\* The pixels of [from, from + size) shrunk by the padding at both ends; the
\* one pixel the shrunk span is clamped to when nothing is left of it.
Shrunk(from, size, padding) ==
    IF size > 2 * padding THEN (from + padding)..(from + size - padding - 1)
    ELSE {from + padding}

\* C4: the point clicked for a rectangle with area lies inside the rectangle
\* shrunk by the padding, and inside the rectangle itself.
C4_ClickInsideShrunkRect ==
    (apc = "ret" /\ ~ZeroArea(arg)) =>
        /\ target.rx \in Shrunk(arg.x, arg.width, arg.padding)
        /\ target.ry \in Shrunk(arg.y, arg.height, arg.padding)
        /\ target.rx \in arg.x..(arg.x + arg.width - 1)
        /\ target.ry \in arg.y..(arg.y + arg.height - 1)

\* C5: on both backends a call has, when it returns, clicked exactly once,
\* as the last thing it did to the pointer, and returns where it clicked.
C5_OneClickReturned ==
    apc = "ret" =>
        /\ Cardinality({k \in 1..Len(pointer) : pointer[k] = "click"}) = 1
        /\ pointer[Len(pointer)] = "click"
        /\ ret = clickAt

------------------------------------------------------------------------------
(* Text search *)

\* The keyword occurs in the text, letter case aside.
ContainsCI(text, keyword) ==
    \/ keyword = <<>>
    \/ \E a \in 1..Len(text) :
          \E b \in a..Len(text) : SubSeq(Lower(text), a, b) = Lower(keyword)

\* A detection find_text_boxes may return: confident enough (conf in tenths,
\* the floor in units), with text, with a keyword in the text.
Qualifies(d, keywords, conf_min) ==
    /\ d.conf >= 10 * conf_min
    /\ d.text # <<>>
    /\ \E k \in 1..Len(keywords) : ContainsCI(d.text, keywords[k])

\* C6: the boxes returned are those of qualifying detections, in the order
\* of the detections and each detection at most once; a detection exactly
\* at the floor that qualifies is among them.
C6_TextSearchFilters ==
    fpc = "done" =>
        /\ \E f \in [1..Len(fout) -> 1..Len(fin.ocr_data)] :
              /\ \A i, j \in 1..Len(fout) : i < j => f[i] < f[j]
              /\ \A i \in 1..Len(fout) :
                    /\ fout[i] = TextBox(fin.ocr_data[f[i]])
                    /\ Qualifies(fin.ocr_data[f[i]], fin.keywords, fin.conf_min)
        /\ \A i \in 1..Len(fin.ocr_data) :
              (/\ fin.ocr_data[i].conf = 10 * fin.conf_min
               /\ Qualifies(fin.ocr_data[i], fin.keywords, fin.conf_min))
                  => \E k \in 1..Len(fout) : fout[k] = TextBox(fin.ocr_data[i])

\* Of two detections that both name a keyword twice over, the one just
\* under the floor is dropped and the one at the floor is returned once.
C6_Witness ==
    /\ fpc = "done" /\ fin.conf_min = 60
    /\ fin.keywords = <<<<"k">>, <<"O", "k">>>>
    /\ Len(fin.ocr_data) = 2
    /\ fin.ocr_data[1].conf = 595 /\ fin.ocr_data[1].text = <<"O", "K">>
    /\ fin.ocr_data[2].conf = 600 /\ fin.ocr_data[2].text = <<"O", "K">>
    /\ Len(fout) = 1

------------------------------------------------------------------------------
(* The template-then-text step *)

\* The first of them in scan order: topmost, then leftmost.
FirstOf(S) ==
    CHOOSE p \in S : \A q \in S : p[2] < q[2] \/ (p[2] = q[2] /\ p[1] <= q[1])

\* The detections of the frame that lie inside the rectangle and qualify.
TextInside(img, r, step) ==
    {k \in 1..Len(img.dets) :
        /\ r.x <= img.dets[k].left
        /\ img.dets[k].left + img.dets[k].width <= r.x + r.width
        /\ r.y <= img.dets[k].top
        /\ img.dets[k].top + img.dets[k].height <= r.y + r.height
        /\ Qualifies(img.dets[k], step.targets, step.ocr_conf)}

TextOps == {k \in 1..Len(trace) : trace[k].op = "text"}

\* The rectangle of the first template candidate of the frame in hand.
FirstCandidate(step) ==
    LET p == FirstOf(AboveThreshold(frame.surface, step.tpl_thresh))
    IN  Rect(p[1], p[2], step.template_image.width, step.template_image.height)

\* C7: once a template-then-text step has been evaluated on a frame, every
\* text search of the iteration came after a template search; without a
\* template candidate there was no text search and no click; with one, the
\* only text search was on the crop of the first candidate, and when that
\* crop holds no qualifying text there is no click.
C7_TextOnlyInFirstCandidate ==
    (pc \in {"acting", "sleep"} /\ steps[step_index + 1].mode = "template_ocr") =>
        LET step == steps[step_index + 1]
            S == AboveThreshold(frame.surface, step.tpl_thresh)
        IN  /\ \A k \in TextOps : \E j \in 1..(k - 1) : trace[j].op = "template"
            /\ S = {} => (TextOps = {} /\ pc = "sleep" /\ ActuatorCalls = 0)
            /\ S # {} =>
                  /\ Cardinality(TextOps) = 1
                  /\ \A k \in TextOps : trace[k].on = FirstCandidate(step)
                  /\ TextInside(frame, FirstCandidate(step), step) = {}
                        => (pc = "sleep" /\ ActuatorCalls = 0 /\ apc = "idle")

\* Two template candidates, the keyword inside the second only: no click.
C7_Witness ==
    /\ pc = "sleep" /\ steps[step_index + 1].mode = "template_ocr"
    /\ frame = TwoHits
    /\ Len(matches) = 2
    /\ TextInside(frame, Rect(matches[2][1], matches[2][2], matches[2][3], matches[2][4]),
                  steps[step_index + 1]) # {}
    /\ clicks = 0

\* C8: the rectangle a template-then-text step hands to the actuator is its
\* first text box moved by the origin of the first template candidate, which
\* is where that detection lies in the frame.
C8_AbsoluteRect ==
    (pc = "acting" /\ steps[step_index + 1].mode = "template_ocr") =>
        LET step == steps[step_index + 1]
            c == FirstCandidate(step)
            inside == TextInside(frame, c, step)
            d == frame.dets[CHOOSE k \in inside : \A j \in inside : k <= j]
        IN  /\ boxes # <<>>
            /\ arg.x = c.x + boxes[1][1] /\ arg.y = c.y + boxes[1][2]
            /\ arg.width = boxes[1][3] /\ arg.height = boxes[1][4]
            /\ inside # {}
            /\ arg.x = d.left /\ arg.y = d.top
            /\ arg.width = d.width /\ arg.height = d.height

\* The reference at (1, 1), the text at (1, 1) inside it: the actuator gets
\* the rectangle at (2, 2).
C8_Witness ==
    /\ pc = "acting" /\ steps[step_index + 1].mode = "template_ocr"
    /\ frame = TplText
    /\ matches[1][1] = 1 /\ matches[1][2] = 1
    /\ boxes[1][1] = 1 /\ boxes[1][2] = 1
    /\ arg.x = 2 /\ arg.y = 2 /\ arg.width = 2 /\ arg.height = 1

------------------------------------------------------------------------------
(* Start-up and cancellation *)

\* The backend main asked for could not be had.
BackendUnavailable == pc # "main" /\ backend = "none"

\* The step list of the command line cannot be prepared.
StepsRejected == prepare_steps(args.steps, args).error # ""

\* C9: with a backend that is not available or a step list that cannot be
\* prepared, nothing is ever captured or clicked, the polling loop is never
\* entered, and main ends by printing a diagnostic and returning.
C9_FatalBeforePolling ==
    (BackendUnavailable \/ StepsRejected) =>
        /\ captures = 0 /\ clicks = 0
        /\ pc \in {"main", "prepare", "done"}
        /\ pc = "done" => (outcome = "returned" /\ printed = "error")

\* What is left of C9 when main may also end by raising.
StartupNeverPolls ==
    (BackendUnavailable \/ StepsRejected) =>
        /\ captures = 0 /\ clicks = 0
        /\ pc \in {"main", "prepare", "done"}

\* C10: no run stops with pointer moves of an actuation made and its click
\* not performed.
C10_NoStopInsideActuation ==
    (pc = "done" /\ printed = "stopped") =>
        ~(pointer # <<>> /\ \A k \in 1..Len(pointer) : pointer[k] = "move")

------------------------------------------------------------------------------
(* The run once started *)

\* main got its adapter and its steps: _run_sequence is, or was, running.
Started == steps # <<>>

\* C11: a started run that has ended has ended on the interrupt, with the
\* stop notice printed and main returning; no polling iteration ends it.
C11_OnlyInterruptStops ==
    (Started /\ pc = "done") => (printed = "stopped" /\ outcome = "returned")

------------------------------------------------------------------------------
(* Which candidate is clicked *)

\* The rectangle the actuator was called with.
ArgRect == Rect(arg.x, arg.y, arg.width, arg.height)

\* The first detection of the frame in hand that qualifies for the step.
FirstQualifying(step) ==
    frame.dets[CHOOSE k \in 1..Len(frame.dets) :
                  /\ Qualifies(frame.dets[k], step.targets, step.ocr_conf)
                  /\ \A j \in 1..(k - 1) :
                        ~Qualifies(frame.dets[j], step.targets, step.ocr_conf)]

\* C12: while the actuator runs, it was called once in this iteration, on
\* the first entry of the step's match list: for a text step the first
\* qualifying detection in the engine's order, for a template step the
\* topmost, then leftmost position at or above the threshold, whatever the
\* scores of the entries after it.
C12_FirstCandidateClicked ==
    pc = "acting" =>
        LET step == steps[step_index + 1]
            first == StepMatchList[1]
        IN  /\ StepMatchList # <<>>
            /\ ActuatorCalls = 1
            /\ trace[Len(trace)] = Op("actuate", ArgRect)
            /\ step.mode \in {"ocr", "template"} =>
                  ArgRect = Rect(first[1], first[2], first[3], first[4])
            /\ step.mode = "ocr" =>
                  LET d == FirstQualifying(step)
                  IN  ArgRect = Rect(d.left, d.top, d.width, d.height)
            /\ step.mode = "template" => ArgRect = FirstCandidate(step)

\* Two template matches, the second with the higher score: the first is
\* clicked.
C12_Witness ==
    /\ pc = "acting" /\ apc = "ret" /\ clicks = 1
    /\ steps[step_index + 1].mode = "template"
    /\ Len(matches) = 2 /\ matches[2][5] > matches[1][5]
    /\ ArgRect = Rect(matches[1][1], matches[1][2], matches[1][3], matches[1][4])

------------------------------------------------------------------------------
(* Template search as a greedy filter *)

\* p comes before q in scan order: row by row, left to right in a row.
ScanBefore(p, q) == p[2] < q[2] \/ (p[2] = q[2] /\ p[1] < q[1])

\* The position of a returned candidate.
At(c) == <<c[1], c[2]>>

\* Two positions within half the reference width and half its height.
WithinHalf(p, q, template) ==
    /\ 2 * Abs(p[1] - q[1]) <= template.width
    /\ 2 * Abs(p[2] - q[2]) <= template.height

\* Two positions closer than the whole-number halves of the reference size.
CloserThanFloorHalf(p, q, template) ==
    /\ Abs(p[1] - q[1]) < template.width \div 2
    /\ Abs(p[2] - q[2]) < template.height \div 2

\* `out` is what a greedy filter returns on the surface: nothing for a
\* reference without area; otherwise positions at or above the threshold in
\* scan order, each with the reference's size and its score, none of them a
\* duplicate of an earlier one, and every position at or above the threshold
\* that is left out a duplicate of a returned one before it.
IsGreedyFilter(out, result, template, threshold, Duplicate(_, _, _)) ==
    IF template.width * template.height = 0 THEN out = <<>>
    ELSE LET above == AboveThreshold(result, threshold)
             kept == {At(out[k]) : k \in 1..Len(out)}
         IN  /\ \A k \in 1..Len(out) :
                   /\ At(out[k]) \in above
                   /\ out[k][3] = template.width /\ out[k][4] = template.height
                   /\ out[k][5] = result[out[k][2] + 1][out[k][1] + 1]
                   /\ out[k][5] >= threshold
             /\ \A i, j \in 1..Len(out) :
                   i < j => /\ ScanBefore(At(out[i]), At(out[j]))
                            /\ ~Duplicate(At(out[i]), At(out[j]), template)
             /\ \A p \in above \ kept :
                   \E q \in kept : ScanBefore(q, p) /\ Duplicate(q, p, template)

\* C13: find_template_matches is the greedy filter whose duplicates are the
\* positions within half the reference width and half its height.
C13_GreedyWithinHalf ==
    fpc = "done" =>
        IsGreedyFilter(fout, fin.result, fin.template, fin.threshold, WithinHalf)

\* C13, as the code has it: find_template_matches is the greedy filter whose
\* duplicates are the positions closer than the whole-number half of the
\* reference width and closer than the whole-number half of its height.
C13_GreedyFloorHalf ==
    fpc = "done" =>
        IsGreedyFilter(fout, fin.result, fin.template, fin.threshold,
                       CloserThanFloorHalf)

\* A 4 x 2 reference and three positions, all exactly at the threshold:
\* (1, 0) is a duplicate of (0, 0), and (1, 1), one row down, is not.
C13_Witness ==
    /\ fpc = "done"
    /\ fin.template = [width |-> 4, height |-> 2]
    /\ AboveThreshold(fin.result, fin.threshold) = {<<0, 0>>, <<1, 0>>, <<1, 1>>}
    /\ fout = <<<<0, 0, 4, 2, 86>>, <<1, 1, 4, 2, 86>>>>

------------------------------------------------------------------------------
(* Template search on a single planted copy *)

\* The surface is that of a single copy planted at p: p is at or above the
\* threshold, and so is nothing farther than one unit from p.
PlantedAt(p, result, threshold) ==
    /\ p \in AboveThreshold(result, threshold)
    /\ \A q \in AboveThreshold(result, threshold) :
          Abs(q[1] - p[1]) <= 1 /\ Abs(q[2] - p[2]) <= 1

\* One candidate is returned, within one unit of p and of the reference's
\* size.
OneCandidateNear(p) ==
    /\ Len(fout) = 1
    /\ Abs(fout[1][1] - p[1]) <= 1 /\ Abs(fout[1][2] - p[2]) <= 1
    /\ fout[1][3] = fin.template.width /\ fout[1][4] = fin.template.height

\* C14: for a reference of any size with area, a single planted copy yields
\* exactly one candidate, within one unit of the planted location.
C14_PlantedOneCandidate ==
    (fpc = "done" /\ fin.template.width >= 1 /\ fin.template.height >= 1) =>
        \A p \in Cells : PlantedAt(p, fin.result, fin.threshold) => OneCandidateNear(p)

\* C14, as the code has it: for a reference at least 6 wide and 6 high, a
\* single planted copy yields exactly one candidate, within one unit of the
\* planted location.
C14_PlantedOneCandidateFrom6 ==
    (fpc = "done" /\ fin.template.width >= 6 /\ fin.template.height >= 6) =>
        \A p \in Cells : PlantedAt(p, fin.result, fin.threshold) => OneCandidateNear(p)

\* A 6 x 6 reference planted at (1, 0), its left and right neighbours at the
\* threshold too: the left neighbour is the one candidate.
C14_Witness ==
    /\ fpc = "done"
    /\ fin.template = [width |-> 6, height |-> 6]
    /\ PlantedAt(<<1, 0>>, fin.result, fin.threshold)
    /\ AboveThreshold(fin.result, fin.threshold) = {<<0, 0>>, <<1, 0>>, <<2, 0>>}
    /\ fin.result[1][2] = 95
    /\ Len(fout) = 1 /\ At(fout[1]) = <<0, 0>>

------------------------------------------------------------------------------
(* The actuator on a rectangle without area *)

\* C15: a call on a rectangle without area returns the rectangle's origin,
\* on both backends, whatever the padding and the display scale.
C15_ZeroAreaReturnsOrigin ==
    (apc = "ret" /\ ZeroArea(arg)) => ret = <<Float(arg.x), Float(arg.y)>>

\* The mac backend on a display of scale 2, an empty rectangle at (3, 1).
C15_Witness ==
    /\ apc = "ret" /\ backend = "mac" /\ display_scale = 2
    /\ arg.x = 3 /\ arg.y = 1 /\ arg.width = 0 /\ arg.padding = 2
    /\ ret = <<Float(3), Float(1)>>

------------------------------------------------------------------------------
(* Backoff *)

\* The sleeps of the polling iteration in hand.
SleepOps == {k \in 1..Len(trace) : trace[k].op = "sleep"}

------------------------------------------------------------------------------
(* Frames and candidates live for one polling iteration *)

\* The captures of the polling iteration in hand.
CaptureOps == {k \in 1..Len(trace) : trace[k].op = "capture"}

\* The rectangles of the detections of img that qualify for the step and lie
\* inside the region r.
TextRects(img, step, r) ==
    {Rect(img.dets[k].left, img.dets[k].top, img.dets[k].width, img.dets[k].height) :
        k \in {j \in 1..Len(img.dets) :
                  /\ Qualifies(img.dets[j], step.targets, step.ocr_conf)
                  /\ r.x <= img.dets[j].left
                  /\ img.dets[j].left + img.dets[j].width <= r.x + r.width
                  /\ r.y <= img.dets[j].top
                  /\ img.dets[j].top + img.dets[j].height <= r.y + r.height}}

\* The rectangles of the reference image's copies on img.
TemplateRects(img, step) ==
    {Rect(p[1], p[2], step.template_image.width, step.template_image.height) :
        p \in AboveThreshold(img.surface, step.tpl_thresh)}

\* The rectangles a click of the step may be aimed at when the screen shows
\* img.
ClickRects(img, step) ==
    IF step.mode = "ocr" THEN TextRects(img, step, Rect(0, 0, img.width, img.height))
    ELSE IF step.mode = "template" THEN TemplateRects(img, step)
    ELSE UNION {TextRects(img, step, r) : r \in TemplateRects(img, step)}

\* C17: a polling iteration holds exactly one capture, its first act; what
\* is evaluated is the frame of that capture; every template match and every
\* text box of the iteration is found on that frame, and so is the rectangle
\* the actuator is called with; when a new iteration begins, nothing is left
\* of the frame and the match lists before it.
C17_NothingCarriedOver ==
    /\ [](pc \in {"evaluate", "acting", "sleep"} =>
             /\ CaptureOps = {1}
             /\ frame = trace[1].img)
    /\ [](pc \in {"acting", "sleep"} =>
             LET step == steps[step_index + 1]
                 shown == trace[1].img
             IN  /\ \A k \in 1..Len(matches) :
                       Rect(matches[k][1], matches[k][2], matches[k][3], matches[k][4])
                           \in TemplateRects(shown, step)
                 /\ \A k \in 1..Len(boxes) :
                       \E r \in TextRects(shown, step, Rect(0, 0, shown.width, shown.height)) :
                           /\ r.width = boxes[k][3] /\ r.height = boxes[k][4]
                           /\ step.mode = "ocr" => (r.x = boxes[k][1] /\ r.y = boxes[k][2])
                 /\ pc = "acting" => ArgRect \in ClickRects(shown, step))
    /\ [][(pc = "capture" /\ pc' = "evaluate") =>
              /\ captures' = captures + 1
              /\ matches' = <<>> /\ boxes' = <<>>
              /\ Len(trace') = 1]_vars

\* The second iteration of a step: the first frame showed nothing, this one
\* shows the text, and the click goes to where this one shows it.
C17_Witness ==
    /\ pc = "acting" /\ captures = 2 /\ hits = 1
    /\ steps[step_index + 1].mode = "ocr"
    /\ frame = TextFrame
    /\ ArgRect = Rect(5, 1, 2, 1)

------------------------------------------------------------------------------
(* Preparation: the fields a mode needs *)

TextModes == {"ocr", "template_ocr"}

TemplateModes == {"template", "template_ocr"}

\* The raw target names a keyword: a string with a character that is neither
\* a blank nor a bar, or a list with an entry that is not all blanks.
NamesKeyword(raw_target) ==
    \/ /\ raw_target.kind = "str"
       /\ \E i \in 1..Len(raw_target.str) : raw_target.str[i] \notin {" ", "|"}
    \/ /\ raw_target.kind = "list"
       /\ \E k \in 1..Len(raw_target.list) :
             \E i \in 1..Len(raw_target.list[k]) : raw_target.list[k][i] # " "

\* The image file a step's template is read from: the step's own, else the
\* one of --template, else ./image.png.
TemplateFile(step, a) ==
    IF step.template # "" THEN step.template
    ELSE IF a.template # "" THEN a.template
    ELSE "./image.png"

\* C18: a list with a text step or a template-then-text step without a
\* keyword is rejected, and so is a list with a template step or a
\* template-then-text step without a template field.
C18_MandatoryFieldsRejected ==
    fpc = "done" =>
        \A k \in 1..Len(fin.raw_steps.items) :
            LET step == fin.raw_steps.items[k]
            IN  /\ (step.isdict /\ step.mode \in TextModes /\ ~NamesKeyword(step.target))
                      => fout.error # ""
                /\ (step.isdict /\ step.mode \in TemplateModes /\ step.template = "")
                      => fout.error # ""

\* A step the preparation takes: an object with a known mode, a keyword if
\* the mode reads text, and a template file that loads, the step's own or the
\* fallback, if the mode matches a template.
Acceptable(step, a) ==
    /\ step.isdict
    /\ step.mode \in TextModes \cup TemplateModes
    /\ step.mode \in TextModes => NamesKeyword(step.target)
    /\ step.mode \in TemplateModes => TemplateFile(step, a) \in DOMAIN Files

\* C18, as the code has it: a list is rejected exactly when it is empty or
\* one of its steps is not acceptable; a step without a keyword is never
\* acceptable, a step without a template field is when the fallback file
\* loads; the steps of a list that is taken have their keywords and their
\* reference image.
C18_MandatoryFieldsOrFallback ==
    fpc = "done" =>
        LET items == fin.raw_steps.items
        IN  /\ fout.error = "" <=>
                  (items # <<>> /\ \A k \in 1..Len(items) : Acceptable(items[k], fin.args))
            /\ fout.error = "" =>
                  /\ Len(fout.steps) = Len(items)
                  /\ \A k \in 1..Len(items) :
                        /\ fout.steps[k].mode = items[k].mode
                        /\ items[k].mode \in TextModes => fout.steps[k].targets # <<>>
                        /\ items[k].mode \in TemplateModes =>
                              fout.steps[k].template_image =
                                  Files[TemplateFile(items[k], fin.args)]

\* A template step without a template field is taken with the image of
\* --template, next to a text step that is taken too.
C18_Witness ==
    /\ fpc = "done" /\ fout.error = ""
    /\ fin.args.template = "ok.png"
    /\ fin.raw_steps.items = <<RawStep(TRUE, "template", NoTarget, "", <<>>), OcrStep>>
    /\ fout.steps[1].template_image = Files["ok.png"]

------------------------------------------------------------------------------
(* Pointer motion *)

\* The range the backend in use draws its number of moves from.
StepRange == IF backend = "mac" THEN steps_range ELSE move_steps

\* The pointer position c lies within `units` units, on either axis, of the
\* point that is k n-ths of the way from the start to the target.  All sides
\* are multiplied by the denominators; a unit is two half units.
NearInterpolation(c, k, n, units) ==
    /\ Abs(n * c.x - c.den * (n * start[1] + (target.x - start[1]) * k))
           + n * c.den * c.jitter <= Float(units) * n * c.den
    /\ Abs(n * c.y - c.den * (n * start[2] + (target.y - start[2]) * k))
           + n * c.den * c.jitter <= Float(units) * n * c.den

\* C19: every call on a rectangle with area moves the pointer at least once
\* and a number of times within the backend's step range; the k-th of its S
\* moves ends within one unit of the point k S-ths of the way from the start
\* to the target, the last one within one unit of the target; all moves come
\* before the click, and the click is at the target itself.
C19_MovesThenClickAtTarget ==
    /\ [](apc = "move" /\ ~ZeroArea(arg) =>
             /\ steps_n >= 1 /\ steps_n >= StepRange[1] /\ steps_n <= StepRange[2]
             /\ moved <= steps_n
             /\ pointer = [k \in 1..moved |-> "move"]
             /\ moved >= 1 => NearInterpolation(cursor, moved, steps_n, 1))
    /\ [](apc = "ret" /\ ~ZeroArea(arg) =>
             /\ moved = steps_n
             /\ pointer = [k \in 1..(steps_n + 1) |-> IF k <= steps_n THEN "move" ELSE "click"]
             /\ clickAt = <<target.x, target.y>>
             /\ clickAt = <<Scaled(target.rx, display_scale), Scaled(target.ry, display_scale)>>
             /\ cursor = [x |-> target.x, y |-> target.y, den |-> 1, jitter |-> 0])
    /\ [][(apc = "move" /\ apc' = "ret" /\ ~ZeroArea(arg)) =>
              (moved = steps_n /\ NearInterpolation(cursor, steps_n, steps_n, 1))]_vars

\* The mac backend, from (6, 2) to a target elsewhere: the third of seven
\* moves is made.
C19_Witness ==
    /\ apc = "move" /\ backend = "mac" /\ ~ZeroArea(arg)
    /\ start = <<Float(6), Float(2)>>
    /\ steps_n = 7 /\ moved = 3
    /\ cursor = MoveAt(start, target, 2, 7)
    /\ cursor.x # 7 * target.x

------------------------------------------------------------------------------
(* Progress of the cycle *)

------------------------------------------------------------------------------
(* The index and the step list of a started run *)

\* C21: in a started run the index lies in 0..N-1 and is 0 before the first
\* step is polled, the step list is the one preparation returned, and the
\* step that is polled, matched, clicked and slept for is steps[index];
\* no move of the run changes the step list, and the index changes only
\* when the actuator has returned from its click, to the next index of the
\* cycle.
C21_IndexAndStepsStable ==
    /\ [](Started =>
            /\ Len(steps) >= 1
            /\ step_index \in 0..(Len(steps) - 1)
            /\ steps = prepare_steps(args.steps, args).steps
            /\ (polled = <<>> => step_index = 0)
            /\ (pc \in {"capture", "evaluate", "acting", "sleep"} =>
                    current_step = steps[step_index + 1]))
    /\ [][Started => steps' = steps]_vars
    /\ [][(Started /\ step_index' # step_index) =>
              /\ pc = "acting" /\ apc = "ret" /\ pc' = "loop"
              /\ clicks = hits /\ clickAt # <<>>
              /\ step_index' = (step_index + 1) % Len(steps)]_vars

\* The second of two different steps is being evaluated on the second frame
\* of the run.
C21_Witness ==
    /\ pc = "evaluate" /\ Len(steps) = 2 /\ steps[1] # steps[2]
    /\ step_index = 1 /\ current_step = steps[2]
    /\ captures = 2 /\ clicks = 1 /\ frame # NoFrame

====
